---- MODULE Spec2Model ----
(***************************************************************************)
(* Model of superpipe/steps/serp.py: SERPEnrichmentStep.                   *)
(*                                                                         *)
(* One step instance (`step`) is shared by several callers, each running   *)
(* run(row) on its own row.  A run is split at its only blocking point,    *)
(* the HTTP request of _get_search_results: Begin covers line 90 up to the *)
(* moment the request is sent, Respond covers the arrival of the HTTP      *)
(* outcome, postprocess, the end of the instrumented call and line 94.     *)
(*                                                                         *)
(* Python strings are sequences of tokens, so that concatenation is \o and *)
(* a query, a response body and a postprocessed value are comparable.      *)
(* Step, StepResult and with_statistics are imported by serp.py from files *)
(* that are not part of src/; they are modelled from the specification.    *)
(***************************************************************************)
EXTENDS Integers, Sequences, FiniteSets, TLC

\* ------------------------------------------------------------------ bounds

\* The clock of the process advances at most this far.
MaxClock == 2

\* get_params() is called at most this many times.
MaxParamCalls == 2

\* The concurrent callers of run on the one step instance.
Calls == {"t1", "t2"}

\* ------------------------------------------------------- python values

PyNone == [kind |-> "NoneType"]

PyStr(s) == [kind |-> "str", s |-> s]

PyFunction(n) == [kind |-> "function", name |-> n]

\* f.__name__
NameOf(f) == PyStr(f.name)

\* The outcome of a call: a value returned or an exception raised.
Ok(v) == [raised |-> FALSE, val |-> v, err |-> <<>>]

Raise(kind, msg) == [raised |-> TRUE, val |-> <<>>, err |-> <<kind, msg>>]

\* --------------------------------------------------- the step's inputs

\* Rows handed to run by the pipeline executor.
Rows == {[company |-> "Acme"], [company |-> "Globex"], [ticker |-> "ACME"]}

\* Prompt functions a pipeline author may configure.
Prompts == {PyFunction("company_hq"), PyFunction("describe")}

\* Postprocess functions a pipeline author may configure, or None.
Postprocessors == {PyNone, PyFunction("first_result"), PyFunction("shorten")}

Names == {"serp", "hq"}

\* prompt(row).  company_hq is  lambda r: r["company"] + " headquarters"
\* and raises KeyError on a row without that field; describe is total and
\* gives a one-word query for a row that has only a ticker.
ApplyPrompt(f, row) ==
    IF f.name = "company_hq"
    THEN IF "company" \in DOMAIN row
         THEN Ok(<<row.company, "headquarters">>)
         ELSE Raise("KeyError", "company")
    ELSE IF "company" \in DOMAIN row
         THEN Ok(<<"about", row.company>>)
         ELSE Ok(<<row.ticker>>)

\* postprocess(text).  first_result is  lambda t: t.split()[2]  and raises
\* IndexError on a text of fewer than three words (the result of a one-word
\* query); shorten is total; the default of line 91 is the identity lambda.
ApplyPost(f, text) ==
    IF f.name = "first_result"
    THEN IF Len(text) >= 3
         THEN Ok(<<text[3]>>)
         ELSE Raise("IndexError", "list index out of range")
    ELSE IF f.name = "shorten"
    THEN Ok(<<"short:">> \o text)
    ELSE Ok(text)

\* What requests.request can do for one POST: answer with a search result
\* (200), answer with an error (403, e.g. a missing or wrong API key), or
\* raise (a network failure).
HttpOutcomes ==
    { [type |-> "response", status |-> 200],
      [type |-> "response", status |-> 403],
      [type |-> "exception", status |-> 0] }

\* response.text of the search endpoint for query q: the results for q, or
\* the error body  {"message": "Unauthorized.", "statusCode": 403}.
ResponseText(h, q) ==
    IF h.status = 200
    THEN <<"results:">> \o q
    ELSE <<"message:", "Unauthorized.", "403">>

\* ------------------------------------------------------------ events

PromptEv == [ev |-> "prompt", arg |-> <<>>]

CallEv(q) == [ev |-> "call", arg |-> q]

PostEv(text) == [ev |-> "postprocess", arg |-> text]

ResultEv == [ev |-> "result", arg |-> <<>>]

\* ------------------------------------------------- Step, StepResult, utils

\* Step.__init__(name) and SERPEnrichmentStep.__init__.
NewStep(name, prompt, postprocess) ==
    [name |-> name, prompt |-> prompt, postprocess |-> postprocess]

\* Step.get_params(): the base class contributes the step's name.
Step_get_params(self) == [name |-> self.name]

\* StepResult(fields=..., statistics=..., input=...)
StepResult(fields, statistics, input) ==
    [fields |-> fields, statistics |-> statistics, input |-> input]

\* The value with_statistics returns in place of fn's result when fn raised.
ErrorMarker == <<"<ERROR>">>

\* with_statistics(fn)(x): fn is invoked once (its events appear once), the
\* elapsed time is measured around it, an exception is caught and turned
\* into the error marker and a failure record.  f is what fn did, started
\* is the clock when the wrapper was entered and now the clock when fn ended.
with_statistics(f, started, now) ==
    [ result |-> IF f.out.raised THEN ErrorMarker ELSE f.out.val,
      statistics |-> [ success |-> ~f.out.raised,
                       error |-> f.out.err,
                       latency |-> now - started ],
      trace |-> f.trace ]

\* ------------------------------------------------- SERPEnrichmentStep

\* A get_params that stores the prompt callable instead of its __name__.
get_params_callable(self) ==
    Step_get_params(self) @@
    [ prompt |-> self.prompt,
      postprocess |-> IF self.postprocess # PyNone
                      THEN NameOf(self.postprocess)
                      ELSE PyNone ]

get_params(self) ==
    Step_get_params(self) @@
    [ prompt |-> NameOf(self.prompt),
      postprocess |-> IF self.postprocess # PyNone
                      THEN NameOf(self.postprocess)
                      ELSE PyNone ]

\* _get_search_results(q), given what requests.request did: an exception of
\* requests propagates, any response is returned as its text whatever its
\* status.
_get_search_results(q, h) ==
    IF h.type = "exception"
    THEN Raise("ConnectTimeout", "timed out")
    ELSE Ok(ResponseText(h, q))

\* A line 90 wrapped in  try ... except: search_prompt = ""
derive_swallow(self, row) ==
    IF ApplyPrompt(self.prompt, row).raised
    THEN Ok(<<>>)
    ELSE ApplyPrompt(self.prompt, row)

\* Line 90: search_prompt = self.prompt(row), outside any try.
derive(self, row) == ApplyPrompt(self.prompt, row)

\* A line 91 that always takes the identity lambda.
postprocess_of_identity(self) == PyFunction("<lambda>")

\* Line 91: the local postprocess, the identity lambda when none is configured.
postprocess_of(self) ==
    IF self.postprocess # PyNone THEN self.postprocess ELSE PyFunction("<lambda>")

\* An fn that falls back to the raw text when postprocess raises.
fn_swallow(self, x, h) ==
    LET r == _get_search_results(x, h)
        p == ApplyPost(postprocess_of(self), r.val)
    IN  IF r.raised
        THEN [out |-> r, trace |-> <<CallEv(x)>>]
        ELSE [ out |-> IF p.raised THEN r ELSE p,
               trace |-> <<CallEv(x), PostEv(r.val)>> ]

\* An fn that tries the request a second time when the first attempt raises.
fn_retry(self, x, h) ==
    LET r == _get_search_results(x, h)
    IN  IF r.raised
        THEN [out |-> r, trace |-> <<CallEv(x), CallEv(x)>>]
        ELSE [ out |-> ApplyPost(postprocess_of(self), r.val),
               trace |-> <<CallEv(x), PostEv(r.val)>> ]

\* Line 92: fn(x) = postprocess(self._get_search_results(x)), with the calls
\* it makes in order.
fn(self, x, h) ==
    LET r == _get_search_results(x, h)
    IN  IF r.raised
        THEN [out |-> r, trace |-> <<CallEv(x)>>]
        ELSE [ out |-> ApplyPost(postprocess_of(self), r.val),
               trace |-> <<CallEv(x), PostEv(r.val)>> ]

\* A line 94 that leaves the field out when the call failed.
_run_return_omit(self, w, search_prompt) ==
    StepResult(IF w.statistics.success THEN self.name :> w.result ELSE <<>>,
               w.statistics, search_prompt)

\* A line 94 that reports the produced value as the input.
_run_return_output(self, w, search_prompt) ==
    StepResult(self.name :> w.result, w.statistics, w.result)

\* A line 94 that drops the wrapper's statistics.
_run_return_nostats(self, w, search_prompt) ==
    StepResult(self.name :> w.result, <<>>, search_prompt)

\* Line 94: the StepResult built from the wrapper's pair and the prompt.
_run_return(self, w, search_prompt) ==
    StepResult(self.name :> w.result, w.statistics, search_prompt)

\* A line 91 that stores the default on the step:
\* self.postprocess = self.postprocess or (lambda x: x)
self_after_run_default(self) ==
    [self EXCEPT !.postprocess = postprocess_of(self)]

\* The step object after _run: no line of _run assigns to an attribute of self.
self_after_run(self) == self

\* ------------------------------------------------------------- state

VARIABLES
    step,            \* the step instance
    config,          \* the configuration the step was constructed with
    clock,           \* time.time()
    pc,              \* per caller: "idle", "waiting", "returned", "raised"
    row,             \* per caller: the row given to run
    search_prompt,   \* per caller: the local of line 90
    started,         \* per caller: the clock when the wrapper was entered
    http,            \* per caller: what requests.request did
    ret,             \* per caller: the StepResult returned
    exc,             \* per caller: the exception that left run
    events,          \* per caller: the calls made by this run, in order
    params,          \* the mappings get_params has returned
    nParams,         \* how many times get_params was called
    overlapped       \* whether a run began while another was in flight

vars == <<step, config, clock, pc, row, search_prompt, started, http, ret,
          exc, events, params, nParams, overlapped>>

NoRow == [none |-> TRUE]

NoHttp == [type |-> "none", status |-> 0]

NoResult == [none |-> TRUE]

Init ==
    /\ \E n \in Names, p \in Prompts, pp \in Postprocessors :
          /\ step = NewStep(n, p, pp)
          /\ config = NewStep(n, p, pp)
    /\ clock = 0
    /\ pc = [c \in Calls |-> "idle"]
    /\ row = [c \in Calls |-> NoRow]
    /\ search_prompt = [c \in Calls |-> <<>>]
    /\ started = [c \in Calls |-> 0]
    /\ http = [c \in Calls |-> NoHttp]
    /\ ret = [c \in Calls |-> NoResult]
    /\ exc = [c \in Calls |-> <<>>]
    /\ events = [c \in Calls |-> <<>>]
    /\ params = {}
    /\ nParams = 0
    /\ overlapped = FALSE

\* run(r) is entered by caller c: line 90, then lines 91-93 up to the moment
\* the request is on the wire.  A raising prompt ends the run there.
Begin(c, r) ==
    /\ pc[c] = "idle"
    /\ row' = [row EXCEPT ![c] = r]
    /\ events' = [events EXCEPT ![c] = <<PromptEv>>]
    /\ LET d == derive(step, r)
       IN  IF d.raised
           THEN /\ pc' = [pc EXCEPT ![c] = "raised"]
                /\ exc' = [exc EXCEPT ![c] = d.err]
                /\ UNCHANGED <<search_prompt, started>>
           ELSE /\ pc' = [pc EXCEPT ![c] = "waiting"]
                /\ search_prompt' = [search_prompt EXCEPT ![c] = d.val]
                /\ started' = [started EXCEPT ![c] = clock]
                /\ exc' = exc
    /\ overlapped' = (overlapped \/ \E d \in Calls : pc[d] = "waiting")
    /\ step' = self_after_run(step)
    /\ UNCHANGED <<config, clock, http, ret, params, nParams>>

\* The HTTP request of caller c ends with outcome h: the rest of fn, the end
\* of the instrumented call and line 94.
Respond(c, h) ==
    /\ pc[c] = "waiting"
    /\ LET w == with_statistics(fn(step, search_prompt[c], h), started[c], clock)
       IN  /\ ret' = [ret EXCEPT ![c] = _run_return(step, w, search_prompt[c])]
           /\ events' = [events EXCEPT ![c] = @ \o w.trace \o <<ResultEv>>]
    /\ http' = [http EXCEPT ![c] = h]
    /\ pc' = [pc EXCEPT ![c] = "returned"]
    /\ step' = self_after_run(step)
    /\ UNCHANGED <<config, clock, row, search_prompt, started, exc, params, nParams,
                   overlapped>>

\* Time passes.
Tick ==
    /\ clock < MaxClock
    /\ clock' = clock + 1
    /\ UNCHANGED <<step, config, pc, row, search_prompt, started, http, ret,
                   exc, events, params, nParams, overlapped>>

\* step.get_params() is called.
GetParams ==
    /\ nParams < MaxParamCalls
    /\ params' = params \cup {get_params(step)}
    /\ nParams' = nParams + 1
    /\ UNCHANGED <<step, config, clock, pc, row, search_prompt, started, http,
                   ret, exc, events, overlapped>>

Next ==
    \/ \E c \in Calls, r \in Rows : Begin(c, r)
    \/ \E c \in Calls, h \in HttpOutcomes : Respond(c, h)
    \/ Tick
    \/ GetParams

Spec == Init /\ [][Next]_vars

\* ------------------------------------------------- what a run should give

Returned(c) == pc[c] = "returned"

\* derive_input(r) for the row of caller c, under the constructed configuration.
Derived(c) == ApplyPrompt(config.prompt, row[c])

\* The text the external call returned to caller c.
CallText(c) == ResponseText(http[c], Derived(c).val)

\* The external call of caller c raised.
CallRaised(c) == http[c].type = "exception"

\* The configured postprocess applied to the call's text (the text itself when
\* none is configured).
Posted(c) ==
    IF config.postprocess = PyNone
    THEN Ok(CallText(c))
    ELSE ApplyPost(config.postprocess, CallText(c))

\* The instrumented call of caller c failed: the call or postprocess raised.
Failed(c) == CallRaised(c) \/ Posted(c).raised

\* The search API delivered a search result to caller c.
Delivered(c) == http[c].type = "response" /\ http[c].status = 200

\* ------------------------------------------------------------- claims

\* C1: whenever run returns a StepResult, its fields mapping has exactly one
\* key and that key is the step's name, on success and on failure alike.
C1_FieldsHasExactlyTheStepName ==
    \A c \in Calls : Returned(c) => DOMAIN ret[c].fields = {config.name}

C1_Witness ==
    \E c, d \in Calls :
        /\ Returned(c) /\ Failed(c)
        /\ Returned(d) /\ ~Failed(d)

\* C2 as stated: if the external call succeeds, the field is
\* postprocess(external_call(x)) (external_call(x) when no postprocess is
\* configured) and statistics marks success.
C2_AsStated ==
    \A c \in Calls :
        (Returned(c) /\ ~CallRaised(c)) =>
            /\ ret[c].statistics.success
            /\ ret[c].fields[config.name] = Posted(c).val

\* C2 as amended: if the external call succeeds and postprocess does not
\* raise on its result, the field is postprocess(external_call(x))
\* (external_call(x) when no postprocess is configured) and statistics marks
\* success.
C2_SuccessValue ==
    \A c \in Calls :
        (Returned(c) /\ ~CallRaised(c) /\ ~Posted(c).raised) =>
            /\ ret[c].statistics.success
            /\ ret[c].fields[config.name] = Posted(c).val

C2_Witness ==
    \E c, d \in Calls :
        /\ Returned(c) /\ ~Failed(c) /\ config.postprocess # PyNone
        /\ ret[c].fields[config.name] # CallText(c)
        /\ Returned(d) /\ ~CallRaised(d) /\ Delivered(d) /\ Posted(d).raised

\* C3: a failure raised during the external call or during postprocess does
\* not leave run: the run returns, the field is the error marker, statistics
\* marks failure and carries a non-empty error description.  The only
\* exception that leaves run is one raised by the prompt.
C3_FailureIsCaught ==
    \A c \in Calls :
        /\ (Returned(c) /\ Failed(c)) =>
              /\ ret[c].fields[config.name] = ErrorMarker
              /\ ~ret[c].statistics.success
              /\ ret[c].statistics.error # <<>>
        /\ pc[c] = "raised" => Derived(c).raised
        /\ (pc[c] # "idle" /\ ~Derived(c).raised) => exc[c] = <<>>

C3_Witness ==
    \E c, d \in Calls :
        /\ Returned(c) /\ CallRaised(c)
        /\ Returned(d) /\ ~CallRaised(d) /\ Posted(d).raised

\* C4: if the prompt raises for the row, the error leaves run: no StepResult,
\* no statistics, and the external call is never made for that row.
C4_PromptErrorPropagates ==
    \A c \in Calls :
        (pc[c] # "idle" /\ Derived(c).raised) =>
            /\ pc[c] = "raised"
            /\ exc[c] = Derived(c).err
            /\ ret[c] = NoResult
            /\ http[c] = NoHttp
            /\ \A i \in 1..Len(events[c]) : events[c][i].ev = "prompt"

C4_Witness ==
    \E c, d \in Calls : pc[c] = "raised" /\ Returned(d)

\* C5: whenever the search API did not deliver a search result (a network
\* failure, or the API answering with an error), the StepResult is a failed
\* one: statistics does not mark success and the field does not carry the
\* API's error response as an ordinary value.
C5_ApiFailureIsRecordedAsFailure ==
    \A c \in Calls :
        (Returned(c) /\ ~Delivered(c)) =>
            /\ ~ret[c].statistics.success
            /\ (~CallRaised(c) => ret[c].fields[config.name] # CallText(c))

\* C6: StepResult.input is derive_input(r), the argument of the external
\* call, whether the instrumented call succeeded or failed.
C6_InputIsTheDerivedPrompt ==
    \A c \in Calls : Returned(c) => ret[c].input = Derived(c).val

C6_Witness ==
    \E c, d \in Calls :
        /\ Returned(c) /\ Failed(c)
        /\ Returned(d) /\ ~Failed(d) /\ ret[d].fields[config.name] # ret[d].input

C8_LatencyPresentAndNonNegative ==
    \A c \in Calls :
        Returned(c) =>
            /\ "latency" \in DOMAIN ret[c].statistics
            /\ ret[c].statistics.latency >= 0

C8_Witness ==
    \E c, d \in Calls :
        /\ Returned(c) /\ Failed(c) /\ ret[c].statistics.latency > 0
        /\ Returned(d) /\ ~Failed(d) /\ ret[d].statistics.latency = 0

\* C9: the calls of one run are, in order: the prompt once; then, if the
\* prompt returned, the external call once with the derived prompt; then, only
\* if the call returned, postprocess once with the call's text; then the
\* result.  Nothing is tried twice.
C9_EventOrder ==
    \A c \in Calls :
        /\ pc[c] = "idle" => events[c] = <<>>
        /\ pc[c] \in {"raised", "waiting"} => events[c] = <<PromptEv>>
        /\ Returned(c) =>
              events[c] =
                  <<PromptEv, CallEv(Derived(c).val)>>
                  \o (IF CallRaised(c) THEN <<>> ELSE <<PostEv(CallText(c))>>)
                  \o <<ResultEv>>

C9_Witness ==
    \E c, d \in Calls :
        /\ Returned(c) /\ CallRaised(c)
        /\ Returned(d) /\ ~CallRaised(d) /\ Len(events[d]) = 4

\* C10: run leaves the step's configuration as constructed, and each of the
\* concurrent runs returns the fields, input and success flag it would return
\* alone; a failed run does not change another run's result.
C10_RunsAreIndependent ==
    /\ step = config
    /\ \A c \in Calls :
          Returned(c) =>
              /\ ret[c].fields =
                    (config.name :> (IF Failed(c) THEN ErrorMarker ELSE Posted(c).val))
              /\ ret[c].input = Derived(c).val
              /\ ret[c].statistics.success = ~Failed(c)

C10_Witness ==
    /\ overlapped
    /\ \E c, d \in Calls :
          /\ row[c] # row[d]
          /\ Returned(c) /\ Failed(c)
          /\ Returned(d) /\ ~Failed(d)

====
